---- MODULE Spec2Model ----
(***************************************************************************)
(* Model of the earthquake payout library:                                 *)
(*   tools.py     get_haversine_distance, compute_payouts,                 *)
(*                compute_burning_cost                                     *)
(*   usgs_api.py  get_earthquake_data_for_multiple_locations               *)
(* Each function is stepped statement by statement.  DataFrames are        *)
(* column-oriented records living in a heap of objects, so that a copy and *)
(* an alias are different things.  Payouts and thresholds are small        *)
(* naturals standing for the floats of the program (0 stands for 0.0).     *)
(***************************************************************************)
EXTENDS Integers, Sequences, FiniteSets, TLC

VARIABLES
    heap,                 \* object id -> DataFrame
    earthquake_data_copy, \* compute_payouts: the local name, an object id
    payout_rules,         \* compute_payouts: the rule list argument
    yearly_totals,        \* compute_payouts: the returned dict
    pcP,                  \* compute_payouts: position
    input0,               \* the arguments as the caller passed them (history)
    payouts,              \* compute_burning_cost: the dict argument
    start_year,
    end_year,
    total_years,
    total_pct,
    year,                 \* compute_burning_cost: the generator's loop variable
    reads,                \* number of payouts.get calls so far (history)
    burning_cost,         \* compute_burning_cost: the returned quotient
    pcB,
    assets,               \* multiple locations: the list of (lat, lon)
    max_concurrent_requests,
    semaphore,            \* asyncio.Semaphore._value
    task,                 \* per location: position of its fetch coroutine
    fetched,              \* per location: the executor future (rows, or an exception)
    results,              \* per location: the DataFrame fetch returned
    concatenated,         \* the frame returned by pd.concat
    pcF,
    lat_series,           \* get_haversine_distance arguments
    lon_series,
    lat_point,
    lon_point,
    lat_arr,
    lon_arr,
    distances,
    pcH

varsP == <<heap, earthquake_data_copy, payout_rules, yearly_totals, pcP, input0>>
varsB == <<payouts, start_year, end_year, total_years, total_pct, year, reads,
           burning_cost, pcB>>
varsF == <<assets, max_concurrent_requests, semaphore, task, fetched, results,
           concatenated, pcF>>
varsH == <<lat_series, lon_series, lat_point, lon_point, lat_arr, lon_arr,
           distances, pcH>>
vars == <<varsP, varsB, varsF, varsH>>

-----------------------------------------------------------------------------
(* Bounds of the model *)

MaxEvents == 2
MaxRules == 2

\* calendar years the events fall in
Years == {2020, 2021}
\* values of depth and mag, of a rule's radius, magnitude and payout: a depth can
\* lie within or beyond a radius, a mag at or below a magnitude threshold
Levels == {1, 2}
Radii == {1, 2}
Magnitudes == {2}
PayoutValues == {1, 2}

-----------------------------------------------------------------------------
(* Generic helpers *)

Range(s) == {s[i] : i \in DOMAIN s}

SeqsUpTo(S, n) == UNION {[1..k -> S] : k \in 0..n}

MaxOfSet(S) == CHOOSE m \in S : \A x \in S : x <= m

\* Python's max() over a non-empty list, as a left-to-right scan
RECURSIVE max(_)
max(s) ==
    IF Len(s) = 1 THEN s[1]
    ELSE LET m == max(Tail(s)) IN IF s[1] >= m THEN s[1] ELSE m

\* the positions from i on, in order, at which the boolean mask is true
RECURSIVE KeptPositions(_, _)
KeptPositions(mask, i) ==
    IF i > Len(mask) THEN <<>>
    ELSE (IF mask[i] THEN <<i>> ELSE <<>>) \o KeptPositions(mask, i + 1)

Take(col, idx) == [j \in 1..Len(idx) |-> col[idx[j]]]

-----------------------------------------------------------------------------
(* Values of the "time" column.                                            *)
(*   str  : a string pandas parses, denoting a date in year y              *)
(*   junk : a string pandas cannot parse                                   *)
(*   ts   : a pandas Timestamp in year y                                   *)
(*   nat  : NaT                                                            *)

TimeStr(y) == [k |-> "str", y |-> y]
TimeJunk == [k |-> "junk", y |-> 0]
Timestamp(y) == [k |-> "ts", y |-> y]
NaT == [k |-> "nat", y |-> 0]

ObjectTimes == {TimeStr(y) : y \in Years} \cup {TimeJunk}
DatetimeTimes == {Timestamp(y) : y \in Years} \cup {NaT}

\* NaN as a group key / year
NaN == -1

Frame(cols, t, d, m, p, y) ==
    [columns |-> cols, time |-> t, depth |-> d, mag |-> m, payout |-> p, year |-> y]

NumRows(f) == Len(f.time)

\* the frames a caller can pass: columns time, depth, mag of equal length; the
\* time column is either datetime64 (Timestamps and NaT) or object (strings)
InputFrames ==
    UNION {
        {Frame({"time", "depth", "mag"}, t, d, m, <<>>, <<>>) :
            t \in [1..n -> ObjectTimes] \cup [1..n -> DatetimeTimes],
            d \in [1..n -> Levels],
            m \in [1..n -> Levels]}
        : n \in 0..MaxEvents}

Rules == [radius : Radii, magnitude : Magnitudes, payout : PayoutValues]

-----------------------------------------------------------------------------
(* compute_payouts, tools.py lines 61-107 *)

CallerRef == "caller"

\* DataFrame.copy(): a new object holding the same columns (a deep copy)
DataFrame_alias(h, ref, new) == [heap |-> h, ref |-> ref]
DataFrame_copy(h, ref, new) == [heap |-> h @@ (new :> h[ref]), ref |-> new]

\* pd.api.types.is_datetime64_any_dtype: the column holds Timestamps and NaT
\* (an empty column built from no rows has dtype object)
is_datetime64_any_dtype(col) ==
    /\ col /= <<>>
    /\ \A i \in DOMAIN col : col[i].k \in {"ts", "nat"}

\* pd.to_datetime(col) with the default errors="raise": fails on the first
\* string it cannot parse
to_datetime_raise(col) ==
    [ok |-> \A i \in DOMAIN col : col[i].k /= "junk",
     col |-> [i \in DOMAIN col |->
                 IF col[i].k \in {"str", "ts"} THEN Timestamp(col[i].y) ELSE NaT]]

\* pd.to_datetime(col, errors="coerce"): what cannot be parsed becomes NaT
to_datetime(col) ==
    [ok |-> TRUE,
     col |-> [i \in DOMAIN col |->
                 IF col[i].k \in {"str", "ts"} THEN Timestamp(col[i].y) ELSE NaT]]

isna(v) == v.k = "nat"

\* DataFrame.dropna(subset=["time"]): a new frame without the rows whose time is NA
dropna(f) ==
    LET idx == KeptPositions([i \in DOMAIN f.time |-> ~isna(f.time[i])], 1)
    IN  Frame(f.columns, Take(f.time, idx), Take(f.depth, idx), Take(f.mag, idx),
              IF "payout" \in f.columns THEN Take(f.payout, idx) ELSE <<>>,
              IF "year" \in f.columns THEN Take(f.year, idx) ELSE <<>>)

\* the list comprehension of compute_payout: the payouts of the rules the row meets
RECURSIVE QualifyingPayouts(_, _, _)
QualifyingPayouts(depth, mag, rules) ==
    IF rules = <<>> THEN <<>>
    ELSE (IF depth <= rules[1].radius /\ mag >= rules[1].magnitude
          THEN <<rules[1].payout>> ELSE <<>>)
         \o QualifyingPayouts(depth, mag, Tail(rules))

RECURSIVE EitherPayouts(_, _, _)
EitherPayouts(depth, mag, rules) ==
    IF rules = <<>> THEN <<>>
    ELSE (IF depth <= rules[1].radius \/ mag >= rules[1].magnitude
          THEN <<rules[1].payout>> ELSE <<>>)
         \o EitherPayouts(depth, mag, Tail(rules))

compute_payout_or(depth, mag, rules) ==
    LET ps == EitherPayouts(depth, mag, rules)
    IN  IF ps /= <<>> THEN max(ps) ELSE 0

compute_payout_nan(depth, mag, rules) ==
    LET ps == QualifyingPayouts(depth, mag, rules)
    IN  IF ps /= <<>> THEN max(ps) ELSE NaN

compute_payout(depth, mag, rules) ==
    LET ps == QualifyingPayouts(depth, mag, rules)
    IN  IF ps /= <<>> THEN max(ps) ELSE 0

\* Series.dt.year: the calendar year of a Timestamp, NaN for NaT
dt_year(v) == IF v.k = "ts" THEN v.y ELSE NaN

groupby_max_qualifying(keys, vals) ==
    [k \in {keys[i] : i \in {j \in DOMAIN keys : vals[j] > 0}} \ {NaN} |->
        max(Take(vals, KeptPositions([i \in DOMAIN keys |-> keys[i] = k], 1)))]

\* groupby("year")["payout"].max().to_dict(): one key per year that occurs (NaN
\* keys are left out), its value the greatest payout of the rows of that year
groupby_max(keys, vals) ==
    [k \in Range(keys) \ {NaN} |->
        max(Take(vals, KeptPositions([i \in DOMAIN keys |-> keys[i] = k], 1)))]

\* lines 85-107 as one function of the arguments
compute_payouts(f, rules) ==
    LET conv == IF ~is_datetime64_any_dtype(f.time) THEN to_datetime(f.time).col ELSE f.time
        kept == dropna([f EXCEPT !.time = conv])
        pay == [i \in 1..NumRows(kept) |-> compute_payout(kept.depth[i], kept.mag[i], rules)]
        yrs == [i \in 1..NumRows(kept) |-> dt_year(kept.time[i])]
    IN  groupby_max(yrs, pay)

\* line 85
Copy ==
    /\ pcP = "copy"
    /\ LET c == DataFrame_copy(heap, CallerRef, "copy")
       IN  /\ heap' = c.heap
           /\ earthquake_data_copy' = c.ref
    /\ pcP' = "to_datetime"
    /\ UNCHANGED <<payout_rules, yearly_totals, input0>>
    /\ UNCHANGED <<varsB, varsF, varsH>>

\* lines 88-89
ConvertTime ==
    /\ pcP = "to_datetime"
    /\ IF ~is_datetime64_any_dtype(heap[earthquake_data_copy].time)
       THEN LET r == to_datetime(heap[earthquake_data_copy].time)
            IN  IF r.ok
                THEN /\ heap' = [heap EXCEPT ![earthquake_data_copy].time = r.col]
                     /\ pcP' = "dropna"
                ELSE /\ pcP' = "raised"
                     /\ UNCHANGED heap
       ELSE /\ pcP' = "dropna"
            /\ UNCHANGED heap
    /\ UNCHANGED <<earthquake_data_copy, payout_rules, yearly_totals, input0>>
    /\ UNCHANGED <<varsB, varsF, varsH>>

\* line 91
DropNa ==
    /\ pcP = "dropna"
    /\ heap' = ("dropped" :> dropna(heap[earthquake_data_copy])) @@ heap
    /\ earthquake_data_copy' = "dropped"
    /\ pcP' = "apply"
    /\ UNCHANGED <<payout_rules, yearly_totals, input0>>
    /\ UNCHANGED <<varsB, varsF, varsH>>

\* lines 93-102
ApplyComputePayout ==
    /\ pcP = "apply"
    /\ LET f == heap[earthquake_data_copy]
       IN  heap' = [heap EXCEPT
                ![earthquake_data_copy].payout =
                    [i \in 1..NumRows(f) |-> compute_payout(f.depth[i], f.mag[i], payout_rules)],
                ![earthquake_data_copy].columns = @ \cup {"payout"}]
    /\ pcP' = "year"
    /\ UNCHANGED <<earthquake_data_copy, payout_rules, yearly_totals, input0>>
    /\ UNCHANGED <<varsB, varsF, varsH>>

\* line 103
AssignYear ==
    /\ pcP = "year"
    /\ LET f == heap[earthquake_data_copy]
       IN  heap' = [heap EXCEPT
                ![earthquake_data_copy].year = [i \in 1..NumRows(f) |-> dt_year(f.time[i])],
                ![earthquake_data_copy].columns = @ \cup {"year"}]
    /\ pcP' = "groupby"
    /\ UNCHANGED <<earthquake_data_copy, payout_rules, yearly_totals, input0>>
    /\ UNCHANGED <<varsB, varsF, varsH>>

\* lines 105-107
GroupByMax ==
    /\ pcP = "groupby"
    /\ LET f == heap[earthquake_data_copy]
       IN  yearly_totals' = groupby_max(f.year, f.payout)
    /\ pcP' = "done"
    /\ UNCHANGED <<heap, earthquake_data_copy, payout_rules, input0>>
    /\ UNCHANGED <<varsB, varsF, varsH>>

-----------------------------------------------------------------------------
(* compute_burning_cost, tools.py lines 111-145 *)

MaxCost == 2

\* years the payout dict may have keys for, and years the window may start or end in
DictYears == {2019, 2020, 2021, 2022}
WindowYears == {2020, 2021, 2022}

PayoutDicts == UNION {[S -> 0..MaxCost] : S \in SUBSET DictYears}

\* the quotient total_pct / total_years, kept exact
Quotient(n, d) == [num |-> n, den |-> d]
NoResult == Quotient(0, 0)

\* line 136
invalid_range_strict(s, e) == s >= e
invalid_range(s, e) == s > e

\* range(start_year, end_year + 1): the first value not produced
range_stop_exclusive(e) == e
range_stop(e) == e + 1

\* dict.get(key, default)
dict_get(d, key, default) == IF key \in DOMAIN d THEN d[key] ELSE default

\* lines 136-137
CheckRange ==
    /\ pcB = "check"
    /\ pcB' = IF invalid_range(start_year, end_year) THEN "raised" ELSE "total"
    /\ UNCHANGED <<payouts, start_year, end_year, total_years, total_pct, year,
                   reads, burning_cost>>
    /\ UNCHANGED <<varsP, varsF, varsH>>

\* lines 139-141, and the start of the generator of line 143
TotalYears ==
    /\ pcB = "total"
    /\ total_years' = end_year - start_year + 1
    /\ IF total_years' = 0
       THEN /\ burning_cost' = Quotient(0, 1)
            /\ pcB' = "done"
            /\ UNCHANGED <<year, total_pct>>
       ELSE /\ year' = start_year
            /\ total_pct' = 0
            /\ pcB' = "sum"
            /\ UNCHANGED burning_cost
    /\ UNCHANGED <<payouts, start_year, end_year, reads>>
    /\ UNCHANGED <<varsP, varsF, varsH>>

\* line 143, one year of the range
SumYear ==
    /\ pcB = "sum"
    /\ year < range_stop(end_year)
    /\ total_pct' = total_pct + dict_get(payouts, year, 0)
    /\ reads' = reads + 1
    /\ year' = year + 1
    /\ UNCHANGED <<payouts, start_year, end_year, total_years, burning_cost, pcB>>
    /\ UNCHANGED <<varsP, varsF, varsH>>

\* line 145
ReturnCost ==
    /\ pcB = "sum"
    /\ ~(year < range_stop(end_year))
    /\ burning_cost' = Quotient(total_pct, total_years)
    /\ pcB' = "done"
    /\ UNCHANGED <<payouts, start_year, end_year, total_years, total_pct, year, reads>>
    /\ UNCHANGED <<varsP, varsF, varsH>>

-----------------------------------------------------------------------------
(* get_earthquake_data_for_multiple_locations, usgs_api.py lines 161-214 *)

MaxLocations == 2
MaxLimit == 2
MaxFetched == 1

Locations == {<<10, 20>>, <<30, 40>>}

Tasks == DOMAIN assets

\* the rows get_earthquake_data returns for a location: n events near it
EventRows(loc, n) == [j \in 1..n |-> [kind |-> "event", near |-> loc, n |-> j]]

\* lines 202-204: the frame with the two query columns set
tag(rows, loc) ==
    [j \in DOMAIN rows |->
        [kind |-> rows[j].kind, near |-> rows[j].near, n |-> rows[j].n,
         query_latitude |-> loc[1], query_longitude |-> loc[2]]]

\* lines 206-210: the one-row frame reporting the failure
error_frame(loc) ==
    <<[kind |-> "error", near |-> loc, n |-> 0,
       query_latitude |-> loc[1], query_longitude |-> loc[2]]>>

\* line 194: asyncio.Semaphore lets a coroutine in while its value is positive
semaphore_ignored(value) == TRUE
semaphore_free(value) == value > 0

RECURSIVE concat(_)
concat(frames) ==
    IF frames = <<>> THEN <<>> ELSE frames[1] \o concat(Tail(frames))

\* lines 194-201: enter the semaphore and hand get_earthquake_data to the executor
Acquire(i) ==
    /\ i \in Tasks
    /\ pcF = "gather"
    /\ task[i] = "created"
    /\ semaphore_free(semaphore)
    /\ semaphore' = semaphore - 1
    /\ task' = [task EXCEPT ![i] = "in_executor"]
    /\ UNCHANGED <<assets, max_concurrent_requests, fetched, results, concatenated, pcF>>
    /\ UNCHANGED <<varsP, varsB, varsH>>

\* get_earthquake_data returns a frame of n events
ExecutorReturns(i, n) ==
    /\ i \in Tasks
    /\ task[i] = "in_executor"
    /\ fetched' = [fetched EXCEPT ![i] = [exc |-> FALSE, rows |-> EventRows(assets[i], n)]]
    /\ task' = [task EXCEPT ![i] = "returned"]
    /\ UNCHANGED <<assets, max_concurrent_requests, semaphore, results, concatenated, pcF>>
    /\ UNCHANGED <<varsP, varsB, varsH>>

\* get_earthquake_data raises (HTTPError, URLError, a malformed reply)
ExecutorRaises(i) ==
    /\ i \in Tasks
    /\ task[i] = "in_executor"
    /\ fetched' = [fetched EXCEPT ![i] = [exc |-> TRUE, rows |-> <<>>]]
    /\ task' = [task EXCEPT ![i] = "excepted"]
    /\ UNCHANGED <<assets, max_concurrent_requests, semaphore, results, concatenated, pcF>>
    /\ UNCHANGED <<varsP, varsB, varsH>>

\* lines 202-204 and the exit of "async with"
ResumeReturn(i) ==
    /\ i \in Tasks
    /\ task[i] = "returned"
    /\ results' = [results EXCEPT ![i] = tag(fetched[i].rows, assets[i])]
    /\ semaphore' = semaphore + 1
    /\ task' = [task EXCEPT ![i] = "done"]
    /\ UNCHANGED <<assets, max_concurrent_requests, fetched, concatenated, pcF>>
    /\ UNCHANGED <<varsP, varsB, varsH>>

\* lines 205-210 and the exit of "async with"
ResumeExcept(i) ==
    /\ i \in Tasks
    /\ task[i] = "excepted"
    /\ results' = [results EXCEPT ![i] = error_frame(assets[i])]
    /\ semaphore' = semaphore + 1
    /\ task' = [task EXCEPT ![i] = "done"]
    /\ UNCHANGED <<assets, max_concurrent_requests, fetched, concatenated, pcF>>
    /\ UNCHANGED <<varsP, varsB, varsH>>

\* lines 213-214: gather returns once every task is done; pd.concat of an empty
\* list raises ValueError("No objects to concatenate")
GatherConcat ==
    /\ pcF = "gather"
    /\ \A i \in Tasks : task[i] = "done"
    /\ IF results = <<>>
       THEN /\ pcF' = "raised"
            /\ UNCHANGED concatenated
       ELSE /\ concatenated' = concat(results)
            /\ pcF' = "done"
    /\ UNCHANGED <<assets, max_concurrent_requests, semaphore, task, fetched, results>>
    /\ UNCHANGED <<varsP, varsB, varsH>>

-----------------------------------------------------------------------------
(* get_haversine_distance, tools.py lines 14-57 *)

EARTH_RADIUS == 6378

MaxPoints == 2

\* elements of the coordinate sequences: a number of degrees, a string holding a
\* number, a string holding no number
Num(v) == [k |-> "num", v |-> v]
NumStr(v) == [k |-> "numstr", v |-> v]
BadStr == [k |-> "str", v |-> 0]

LatElements == {Num(0), Num(90), NumStr(90), BadStr}
LonElements == {Num(0), Num(90), NumStr(180), BadStr}

\* np.asarray(seq, dtype=np.float64): a string that holds no number raises ValueError
asarray_coerce(seq) ==
    [ok |-> TRUE,
     arr |-> [i \in DOMAIN seq |-> IF seq[i].k = "str" THEN NaN ELSE seq[i].v]]
asarray_float64(seq) ==
    [ok |-> \A i \in DOMAIN seq : seq[i].k /= "str",
     arr |-> [i \in DOMAIN seq |-> seq[i].v]]

\* cosine of a multiple of 90 degrees
cos(deg) ==
    LET r == deg % 360
    IN  IF r = 0 THEN 1 ELSE IF r = 180 THEN -1 ELSE 0

\* lines 44-55 for angles that are multiples of 90 degrees, where
\* sin(x/2)^2 = (1 - cos x)/2 makes 2a an integer in {0, 1, 2} and
\* c = 2 atan2(sqrt a, sqrt(1 - a)) = 2a * pi/2.  The distance is in units of pi/2 km.
haversine(lat1, lon1, lat2, lon2) ==
    IF lat1 = NaN \/ lon1 = NaN THEN NaN
    ELSE LET dlat == lat2 - lat1
             dlon == lon2 - lon1
             twice_a == (1 - cos(dlat)) + cos(lat1) * cos(lat2) * (1 - cos(dlon))
         IN  EARTH_RADIUS * twice_a

\* line 41
CastLat ==
    /\ pcH = "lat"
    /\ LET r == asarray_float64(lat_series)
       IN  IF r.ok
           THEN /\ lat_arr' = r.arr
                /\ pcH' = "lon"
           ELSE /\ pcH' = "raised"
                /\ UNCHANGED lat_arr
    /\ UNCHANGED <<lat_series, lon_series, lat_point, lon_point, lon_arr, distances>>
    /\ UNCHANGED <<varsP, varsB, varsF>>

\* line 42
CastLon ==
    /\ pcH = "lon"
    /\ LET r == asarray_float64(lon_series)
       IN  IF r.ok
           THEN /\ lon_arr' = r.arr
                /\ pcH' = "formula"
           ELSE /\ pcH' = "raised"
                /\ UNCHANGED lon_arr
    /\ UNCHANGED <<lat_series, lon_series, lat_point, lon_point, lat_arr, distances>>
    /\ UNCHANGED <<varsP, varsB, varsF>>

\* lines 44-57
Haversine ==
    /\ pcH = "formula"
    /\ distances' = [i \in DOMAIN lat_arr |->
                        haversine(lat_arr[i], lon_arr[i], lat_point, lon_point)]
    /\ pcH' = "done"
    /\ UNCHANGED <<lat_series, lon_series, lat_point, lon_point, lat_arr, lon_arr>>
    /\ UNCHANGED <<varsP, varsB, varsF>>

-----------------------------------------------------------------------------
(* Specifications: one per function, the others at rest *)

IdleP ==
    /\ heap = (CallerRef :> Frame({}, <<>>, <<>>, <<>>, <<>>, <<>>))
    /\ earthquake_data_copy = CallerRef
    /\ payout_rules = <<>>
    /\ yearly_totals = <<>>
    /\ pcP = "idle"
    /\ input0 = [frame |-> heap[CallerRef], rules |-> <<>>]

IdleB ==
    /\ payouts = <<>>
    /\ start_year = 0
    /\ end_year = 0
    /\ total_years = 0
    /\ total_pct = 0
    /\ year = 0
    /\ reads = 0
    /\ burning_cost = NoResult
    /\ pcB = "idle"

IdleF ==
    /\ assets = <<>>
    /\ max_concurrent_requests = 0
    /\ semaphore = 0
    /\ task = <<>>
    /\ fetched = <<>>
    /\ results = <<>>
    /\ concatenated = <<>>
    /\ pcF = "idle"

IdleH ==
    /\ lat_series = <<>>
    /\ lon_series = <<>>
    /\ lat_point = 0
    /\ lon_point = 0
    /\ lat_arr = <<>>
    /\ lon_arr = <<>>
    /\ distances = <<>>
    /\ pcH = "idle"

InitPayouts ==
    /\ \E f \in InputFrames, r \in SeqsUpTo(Rules, MaxRules) :
          /\ heap = (CallerRef :> f)
          /\ payout_rules = r
          /\ input0 = [frame |-> f, rules |-> r]
    /\ earthquake_data_copy = CallerRef
    /\ yearly_totals = <<>>
    /\ pcP = "copy"
    /\ IdleB /\ IdleF /\ IdleH

NextPayouts ==
    \/ Copy
    \/ ConvertTime
    \/ DropNa
    \/ ApplyComputePayout
    \/ AssignYear
    \/ GroupByMax

SpecPayouts == InitPayouts /\ [][NextPayouts]_vars

InitBurning ==
    /\ payouts \in PayoutDicts
    /\ start_year \in WindowYears
    /\ end_year \in WindowYears
    /\ total_years = 0
    /\ total_pct = 0
    /\ year = 0
    /\ reads = 0
    /\ burning_cost = NoResult
    /\ pcB = "check"
    /\ IdleP /\ IdleF /\ IdleH

NextBurning ==
    \/ CheckRange
    \/ TotalYears
    \/ SumYear
    \/ ReturnCost

SpecBurning == InitBurning /\ [][NextBurning]_vars

\* line 191 and line 212: the semaphore is built and one coroutine made per location
InitFetch ==
    /\ assets \in SeqsUpTo(Locations, MaxLocations)
    /\ max_concurrent_requests \in 0..MaxLimit
    /\ semaphore = max_concurrent_requests
    /\ task = [i \in DOMAIN assets |-> "created"]
    /\ fetched = [i \in DOMAIN assets |-> [exc |-> FALSE, rows |-> <<>>]]
    /\ results = [i \in DOMAIN assets |-> <<>>]
    /\ concatenated = <<>>
    /\ pcF = "gather"
    /\ IdleP /\ IdleB /\ IdleH

NextFetch ==
    \/ \E i \in Tasks : Acquire(i)
    \/ \E i \in Tasks, n \in 0..MaxFetched : ExecutorReturns(i, n)
    \/ \E i \in Tasks : ExecutorRaises(i)
    \/ \E i \in Tasks : ResumeReturn(i)
    \/ \E i \in Tasks : ResumeExcept(i)
    \/ GatherConcat

SpecFetch == InitFetch /\ [][NextFetch]_vars

\* the event loop runs every coroutine that can run, and urlopen(timeout=15) makes
\* every call handed to the executor end, by returning or by raising
FairFetch ==
    /\ SpecFetch
    /\ \A i \in 1..MaxLocations :
          /\ WF_vars(Acquire(i))
          /\ WF_vars((\E n \in 0..MaxFetched : ExecutorReturns(i, n)) \/ ExecutorRaises(i))
          /\ WF_vars(ResumeReturn(i))
          /\ WF_vars(ResumeExcept(i))
    /\ WF_vars(GatherConcat)

InitHaversine ==
    /\ \E n \in 0..MaxPoints :
          /\ lat_series \in [1..n -> LatElements]
          /\ lon_series \in [1..n -> LonElements]
    /\ lat_point \in {0, 90}
    /\ lon_point \in {0}
    /\ lat_arr = <<>>
    /\ lon_arr = <<>>
    /\ distances = <<>>
    /\ pcH = "lat"
    /\ IdleP /\ IdleB /\ IdleF

NextHaversine ==
    \/ CastLat
    \/ CastLon
    \/ Haversine

SpecHaversine == InitHaversine /\ [][NextHaversine]_vars

-----------------------------------------------------------------------------
(* Properties of compute_payouts.  They are stated over the arguments as    *)
(* the caller passed them (input0), with sets instead of the program's list *)
(* scans.                                                                   *)

InRows == 1..NumRows(input0.frame)

\* the raw time value denotes a date
Parseable(v) == v.k \in {"str", "ts"}

Surviving == {i \in InRows : Parseable(input0.frame.time[i])}

EventYear(i) == input0.frame.time[i].y

Qualifies(i, rule) ==
    /\ input0.frame.depth[i] <= rule.radius
    /\ input0.frame.mag[i] >= rule.magnitude

EventPayout(i) ==
    LET S == {input0.rules[j].payout :
                j \in {k \in DOMAIN input0.rules : Qualifies(i, input0.rules[k])}}
    IN  IF S = {} THEN 0 ELSE MaxOfSet(S)

EventsOfYear(y) == {i \in Surviving : EventYear(i) = y}

ExpectedYearly ==
    [y \in {EventYear(i) : i \in Surviving} |->
        MaxOfSet({EventPayout(i) : i \in EventsOfYear(y)})]

\* the caller's frame without the rows whose timestamp is unparseable or missing
CleanedFrame ==
    LET f == input0.frame
        idx == KeptPositions([i \in DOMAIN f.time |-> Parseable(f.time[i])], 1)
    IN  Frame(f.columns, Take(f.time, idx), Take(f.depth, idx), Take(f.mag, idx), <<>>, <<>>)

\* C1: when every event has a parseable timestamp, compute_payouts returns, for
\* each year in which an event falls, the greatest per-event payout of that year,
\* the per-event payout being the greatest payout among the rules with
\* depth <= radius and mag >= magnitude, 0 when there is none; nothing is summed.
C1_YearlyMaxOfRuleMax ==
    /\ pcP /= "raised"
    /\ (pcP = "done" /\ Surviving = InRows) => yearly_totals = ExpectedYearly

\* two events of one year both pay, so that a sum would differ from the maximum
C1_Witness ==
    /\ pcP = "done"
    /\ Surviving = InRows
    /\ \E i, j \in InRows :
          /\ i /= j
          /\ EventYear(i) = EventYear(j)
          /\ EventPayout(i) > 0
          /\ EventPayout(j) > EventPayout(i)
          /\ yearly_totals[EventYear(i)] = EventPayout(j)

\* no event of year y meets any rule
NoneQualifies(y) == \A i \in EventsOfYear(y) : EventPayout(i) = 0

\* C3 as stated: a year in which no event qualifies under any rule is absent from
\* the returned mapping.
C3_NonQualifyingYearAbsent ==
    pcP = "done" =>
        \A y \in Years : NoneQualifies(y) => y \notin DOMAIN yearly_totals

\* C3 amended: a year in which no event qualifies is absent from the mapping only
\* when no event with a parseable timestamp falls in it; when such events exist
\* and none qualifies, the year is present with value 0.
C3_NonQualifyingYearZeroOrAbsent ==
    pcP = "done" =>
        \A y \in Years :
            NoneQualifies(y) =>
                IF EventsOfYear(y) = {}
                THEN y \notin DOMAIN yearly_totals
                ELSE y \in DOMAIN yearly_totals /\ yearly_totals[y] = 0

\* a year whose events miss every rule of a non-empty rule list, next to an absent year
C3_Witness ==
    /\ pcP = "done"
    /\ input0.rules /= <<>>
    /\ \E y, z \in Years :
          /\ EventsOfYear(y) /= {}
          /\ NoneQualifies(y)
          /\ y \in DOMAIN yearly_totals
          /\ z \notin DOMAIN yearly_totals

\* C4: the keys of the returned mapping are exactly the calendar years of the
\* events whose timestamp is parseable, whatever they pay, and with an empty rule
\* list every key maps to 0.
C4_KeysAreSurvivingYears ==
    pcP = "done" =>
        /\ DOMAIN yearly_totals = {EventYear(i) : i \in Surviving}
        /\ input0.rules = <<>> => \A y \in DOMAIN yearly_totals : yearly_totals[y] = 0

C4_Witness ==
    /\ pcP = "done"
    /\ input0.rules = <<>>
    /\ Surviving /= {}
    /\ Surviving /= InRows
    /\ \A y \in DOMAIN yearly_totals : yearly_totals[y] = 0

\* C5: events with an unparseable or missing timestamp never make compute_payouts
\* fail, and the result is the result for the same arguments without those events.
C5_BadTimestampsDropped ==
    /\ pcP /= "raised"
    /\ pcP = "done" => yearly_totals = compute_payouts(CleanedFrame, input0.rules)

C5_Witness ==
    /\ pcP = "done"
    /\ \E i \in InRows : input0.frame.time[i].k = "junk"
    /\ \E i \in Surviving : yearly_totals[EventYear(i)] > 0

\* C9: the caller's frame and rule list are never changed; payout and year are
\* columns of the working copy only.
C9_CallerDataUnchanged ==
    /\ heap[CallerRef] = input0.frame
    /\ payout_rules = input0.rules
    /\ pcP = "done" =>
          /\ earthquake_data_copy /= CallerRef
          /\ {"payout", "year"} \subseteq heap[earthquake_data_copy].columns

\* the call converted string times and dropped a row, all on the working copy
C9_Witness ==
    /\ pcP = "done"
    /\ \E i \in InRows : input0.frame.time[i].k = "str"
    /\ NumRows(heap[earthquake_data_copy]) < NumRows(heap[CallerRef])
    /\ heap[CallerRef].columns = {"time", "depth", "mag"}

-----------------------------------------------------------------------------
(* Properties of compute_burning_cost *)

RECURSIVE SumOver(_, _)
SumOver(d, S) ==
    IF S = {} THEN 0
    ELSE LET y == CHOOSE y \in S : TRUE IN d[y] + SumOver(d, S \ {y})

\* the keys of the dict that lie in the window
KeysInWindow == {y \in DOMAIN payouts : start_year <= y /\ y <= end_year}

WindowLength == end_year - start_year + 1

\* C2: for start_year <= end_year the call returns the sum of the dict's values
\* over the years of [start_year, end_year], absent years counting 0 and keys
\* outside the window not at all, divided by end_year - start_year + 1.
C2_MeanOverWindow ==
    pcB = "done" =>
        /\ burning_cost.den /= 0
        /\ burning_cost.num * WindowLength = SumOver(payouts, KeysInWindow) * burning_cost.den

\* a window of several years, one of them absent from the dict, one positive, and
\* a positive key outside the window
C2_Witness ==
    /\ pcB = "done"
    /\ end_year > start_year
    /\ \E y \in start_year..end_year : y \notin DOMAIN payouts
    /\ \E y \in KeysInWindow : payouts[y] > 0
    /\ \E y \in DOMAIN payouts \ KeysInWindow : payouts[y] > 0
    /\ burning_cost.num > 0

-----------------------------------------------------------------------------
(* Properties of get_earthquake_data_for_multiple_locations *)

\* what location i owes the result: its events with its own query coordinates, or
\* one error record with its own query coordinates
Owed(i) ==
    IF fetched[i].exc
    THEN <<[kind |-> "error", near |-> assets[i], n |-> 0,
            query_latitude |-> assets[i][1], query_longitude |-> assets[i][2]]>>
    ELSE [j \in DOMAIN fetched[i].rows |->
            [kind |-> "event", near |-> assets[i], n |-> j,
             query_latitude |-> assets[i][1], query_longitude |-> assets[i][2]]]

\* C7: whatever the interleaving and whichever fetches fail, the call ends without
\* an exception, and its result holds, for every location, the events of a
\* successful fetch tagged with the location's coordinates or exactly one error
\* record with the location's coordinates.
C7_FailuresIsolated ==
    /\ pcF /= "raised"
    /\ pcF = "done" => concatenated = concat([i \in Tasks |-> Owed(i)])

\* the same for calls with at least one location
C7_FailuresIsolatedNonEmpty ==
    assets /= <<>> =>
        /\ pcF /= "raised"
        /\ pcF = "done" => concatenated = concat([i \in Tasks |-> Owed(i)])

InProgress == {i \in Tasks : task[i] = "in_executor"}

AllFetched == \A i \in Tasks : task[i] \in {"returned", "excepted", "done"}

\* C8 as stated: never more than max_concurrent_requests calls of
\* get_earthquake_data are in progress, and every location is eventually fetched.
C8_BoundedAndAllFetched ==
    /\ [](Cardinality(InProgress) <= max_concurrent_requests)
    /\ <>AllFetched

\* C8 amended: never more than max_concurrent_requests calls are in progress, and
\* when max_concurrent_requests is at least 1 every location is eventually fetched.
C8_BoundedAndAllFetchedIfPositive ==
    /\ [](Cardinality(InProgress) <= max_concurrent_requests)
    /\ (max_concurrent_requests >= 1) => <>AllFetched

\* a call with more locations than the limit allows at once, ended with every
\* location fetched
C8_Witness ==
    /\ max_concurrent_requests >= 1
    /\ Len(assets) > max_concurrent_requests
    /\ AllFetched
    /\ pcF = "done"

-----------------------------------------------------------------------------
(* Properties of get_haversine_distance *)

\* some coordinate is a string that holds no number
HasUncastable ==
    \/ \E i \in DOMAIN lat_series : lat_series[i].k = "str"
    \/ \E i \in DOMAIN lon_series : lon_series[i].k = "str"

\* C10: when a latitude or longitude cannot be cast to a float the call raises
\* ValueError and returns nothing; no returned distance is a NaN put in place of
\* such a value.
C10_UncastableRaises ==
    /\ HasUncastable => pcH \in {"lat", "lon", "raised"} /\ distances = <<>>
    /\ pcH = "raised" => HasUncastable
    /\ pcH = "done" => \A i \in DOMAIN distances : distances[i] /= NaN

\* the latitudes cast, one of them from a numeric string, and a longitude does not
C10_Witness ==
    /\ pcH = "raised"
    /\ lat_arr /= <<>>
    /\ \E i \in DOMAIN lat_series : lat_series[i].k = "numstr"
    /\ \E i \in DOMAIN lon_series : lon_series[i].k = "str"

====
